---- MODULE Spec2Model ----
(***************************************************************************)
(* State-machine model of pykoop's LMI regressors (src/pykoop/lmi.py):     *)
(* the module-level `polite_stop` flag and its SIGINT handler, the         *)
(* single-shot fits (Tikhonov, SVD, 2-norm, nuclear norm) and the          *)
(* iterative fits (spectral radius, spectral radius Ico, H-infinity,       *)
(* dissipativity) that alternate two semidefinite programs.                *)
(*                                                                         *)
(* The SDP solver (picos) is external: a solve is a step that returns a    *)
(* claimed status and, when it has them, values drawn from small sets.     *)
(* A fit is cut into steps at the places where the flag is read and where  *)
(* a solve blocks, because the signal handler may run between any two of   *)
(* them.  Matrices are sequences of rows of integers.  A Frobenius norm    *)
(* sqrt(t) is carried by its radicand t.                                   *)
(***************************************************************************)
EXTENDS Integers, Sequences, FiniteSets, TLC

\* Bounds of the model.
MaxIter == 2
MaxEntry == 1
MaxCached == 3

(***************************************************************************)
(* Matrices                                                                *)
(***************************************************************************)
Rows(M) == Len(M)

Cols(M) == IF Len(M) = 0 THEN 0 ELSE Len(M[1])

\* np.zeros((r, c))
Zeros(r, c) == [i \in 1..r |-> [j \in 1..c |-> 0]]

\* np.eye(n)
Eye(n) == [i \in 1..n |-> [j \in 1..n |-> IF i = j THEN 1 ELSE 0]]

\* M.T
Transpose(M) == [j \in 1..Cols(M) |-> [i \in 1..Rows(M) |-> M[i][j]]]

\* A - B
MatSub(A, B) == [i \in 1..Rows(A) |-> [j \in 1..Cols(A) |-> A[i][j] - B[i][j]]]

RECURSIVE SumTo(_, _)
SumTo(f, n) == IF n = 0 THEN 0 ELSE f[n] + SumTo(f, n - 1)

\* A @ B
MatMul(A, B) ==
    [i \in 1..Rows(A) |-> [j \in 1..Cols(B) |->
        SumTo([l \in 1..Cols(A) |-> A[i][l] * B[l][j]], Cols(A))]]

\* np.trace(M)
Trace(M) == SumTo([i \in 1..Rows(M) |-> M[i][i]], Rows(M))

\* a * M
Scale(a, M) == [i \in 1..Rows(M) |-> [j \in 1..Cols(M) |-> a * M[i][j]]]

\* A + B
MatAdd(A, B) == [i \in 1..Rows(A) |-> [j \in 1..Cols(A) |-> A[i][j] + B[i][j]]]

\* M without row i and column j
Minor(M, i, j) ==
    [r \in 1..(Rows(M) - 1) |-> [c \in 1..(Cols(M) - 1) |->
        M[IF r < i THEN r ELSE r + 1][IF c < j THEN c ELSE c + 1]]]

RECURSIVE Det(_)
Det(M) ==
    IF Rows(M) = 0 THEN 1
    ELSE IF Rows(M) = 1 THEN M[1][1]
    ELSE SumTo([j \in 1..Cols(M) |->
                   (IF j % 2 = 1 THEN 1 ELSE -1) * M[1][j] * Det(Minor(M, 1, j))],
               Cols(M))

\* The indices of a set in increasing order.
Ascending(S) ==
    [i \in 1..Cardinality(S) |->
        CHOOSE x \in S : Cardinality({z \in S : z < x}) = i - 1]

\* M[rows, cols]
SubMatrix(M, R, C) ==
    LET r == Ascending(R)
        c == Ascending(C)
    IN [i \in 1..Cardinality(R) |-> [j \in 1..Cardinality(C) |-> M[r[i]][c[j]]]]

\* [[A, B], [C, D]]
Block2x2(A, B, C, D) ==
    [i \in 1..(Rows(A) + Rows(C)) |-> [j \in 1..(Cols(A) + Cols(B)) |->
        IF i <= Rows(A)
        THEN IF j <= Cols(A) THEN A[i][j] ELSE B[i][j - Cols(A)]
        ELSE IF j <= Cols(A) THEN C[i - Rows(A)][j] ELSE D[i - Rows(A)][j - Cols(A)]]]

\* M >> 0 for a symmetric M: every principal minor is non-negative.
IsPSD(M) ==
    \A S \in SUBSET (1..Rows(M)) \ {{}} : Det(SubMatrix(M, S, S)) >= 0

\* _fast_frob_norm(A) = sqrt(trace(A @ A.T)); the value returned here is the
\* radicand trace(A @ A.T), which stands for its square root.
_fast_frob_norm(A) == Trace(MatMul(A, Transpose(A)))

\* `difference < self.tol` for difference = sqrt(t): sqrt is increasing on
\* the non-negative numbers, so sqrt(t) < tol iff tol > 0 and t < tol^2.
\* (faulty variant: `<=` in place of `<`)
BelowTolInclusive(t, tl) == tl >= 0 /\ t <= tl * tl

BelowTol(t, tl) == tl > 0 /\ t < tl * tl

(***************************************************************************)
(* Inputs                                                                  *)
(***************************************************************************)
SingleShot == {"LmiEdmdTikhonovReg", "LmiEdmdTikhonovRegSvd",
               "LmiEdmdTwoNormReg", "LmiEdmdNuclearNormReg"}

Iterative == {"LmiEdmdSpectralRadiusConstr", "LmiEdmdSpectralRadiusConstrIco",
              "LmiEdmdHinfReg", "LmiEdmdDissipativityConstr"}

Variants == SingleShot \cup Iterative

\* claimedStatus values of a picos solution
Statuses == {"optimal", "feasible", "infeasible"}

\* y has p_theta = 1 column; X has p = 1 (states only) or p = 2 (one input).
Features == {1, 2}

\* Values a solve can give U (p_theta x p) and a certificate (p_theta x p_theta).
UVals(pt, p) == [1..pt -> [1..p -> 0..MaxEntry]]

CertVals(pt) == [1..pt -> [1..pt -> {1, 2}]]

TolVals == {0, 1, 2}

\* the P_0 keyword of LmiEdmdHinfReg.fit: absent, 'hot', or a matrix
P0Kinds == {"None", "hot", "given"}

\* Values of rho_bar, as num / den: 1/2 and the default 1.0.
RhoBars == {[num |-> 1, den |-> 2], [num |-> 1, den |-> 1]}

\* Values a solve of problem_a can give its variable P (p_theta x p_theta).
PVals(pt) == [1..pt -> [1..pt -> 0..4]]

(***************************************************************************)
(* State                                                                   *)
(***************************************************************************)
VARIABLES
    polite_stop,       \* module-level flag set by sigint_handler
    pc,                \* place of the running fit
    variant,           \* class of the estimator being fitted
    max_iter, tol,     \* its hyperparameters
    rho_bar,           \* the spectral radius bound, as num / den
    p_theta, p,        \* y.shape[1], X.shape[1]
    k,                 \* loop variable of `for k in range(self.max_iter)`
    U, U_prev,         \* locals of fit
    cert,              \* local Gamma (spectral radius), P (H-inf, dissipativity), (R, S) (Ico)
    difference,        \* local: <<>> is None, <<t>> is sqrt(t)
    problem_a,         \* local: the first problem of the round, by the certificate it holds as constant
    problem_b,         \* local: the second problem of the round, by the U it holds as constant
    fitted,            \* names of the attributes set on the estimator
    stop_reason_, n_iter_, coef_, tol_reached_, cert_, solution_status_,
    outcome,           \* "running", what fit returned, or the exception it raised
    \* history variables
    reqThisFit,        \* sigint_handler ran since this fit was called
    staleFlag,         \* the flag was already set when an earlier fit ended
    raisedAt,          \* where the flag was first set during this fit
    nSolveA, nSolveB,  \* solves of this fit started
    nDone,             \* solves of this fit completed
    lastStatus,        \* status the last completed solve returned
    lastValid,         \* U of the last SolveA that returned optimal (zeros before)
    rounds,            \* rounds of this fit fully completed
    prevRoundU,        \* U of the last fully completed round (zeros before)
    lastCert,          \* certificate the last optimal SolveB produced (the seed before)
    lastCertFrom,      \* the U held as constant by the problem_b that produced it (<<>> for the seed)
    \* the part of fit before its first solver call, hyperparameter by hyperparameter
    stage,             \* "new", "constructed" or "fitted"
    args,              \* what the constructor was called with
    est,               \* the attributes __init__ set on the estimator
    call,              \* what fit was called with
    trace,             \* the pieces of fit run so far, in order
    result,            \* "" , "solving" (a solver call was reached) or the exception raised
    blocks,            \* Schur-block constraints of the base problem built
    \* the memoized functions and the base problem, on numbers
    disk,              \* the cache directory: results of _calc_c_G_H and of the factorizations
    first,             \* what the first call of _calc_c_G_H returned, per argument tuple
    held,              \* the statistics a caller was handed last, as returned and as they are now
    problem,           \* the base problem built last
    bstage,            \* "none", "built", "solved" or the exception the builder raised
    sol                \* status the solver returned for the base problem

locals == <<k, U, U_prev, cert, difference, problem_a, problem_b>>

params == <<variant, max_iter, tol, rho_bar, p_theta, p>>

attrs == <<fitted, stop_reason_, n_iter_, coef_, tol_reached_, cert_, solution_status_>>

history == <<reqThisFit, staleFlag, raisedAt, nSolveA, nSolveB, nDone,
             lastStatus, lastValid, rounds, prevRoundU, lastCert, lastCertFrom>>

\* The state of the second view of fit; the fit-by-steps actions leave it alone.
prefixvars == <<stage, args, est, call, trace, result, blocks>>

statvars == <<disk, first, held, problem, bstage, sol>>

aux == <<prefixvars, statvars>>

\* The state of the fit-by-steps view.
stepvars == <<polite_stop, pc, params, locals, attrs, outcome, history>>

vars == <<stepvars, aux>>

\* stop_reason_ strings, kept as records: the fixed text, the problem named in
\* it, and the status or number formatted into it
UserStop == [text |-> "User requested stop.", prob |-> "", status |-> "", num |-> 0]

Unable(prob, st) ==
    [text |-> "Unable to solve. Used last valid U. Solution status:",
     prob |-> prob, status |-> st, num |-> 0]

ReachedTol(tl) == [text |-> "Reached tolerance", prob |-> "", status |-> "", num |-> tl]

ReachedMaxIter(mi) ==
    [text |-> "Reached maximum iterations", prob |-> "", status |-> "", num |-> mi]

NoReason == [text |-> "", prob |-> "", status |-> "", num |-> 0]

NotRaised == [rounds |-> -1, pc |-> ""]

\* Before a constructor or fit has run there are no arguments to speak of.
NoArgs == [variant |-> "", alpha |-> 0, ratio |-> 0, inv_method |-> "", picos_eps |-> 0,
           rho_bar |-> 0, tol |-> 0, max_iter |-> 0]

NoCall == [p_theta |-> 0, p |-> 0, P_0 |-> "", supply_rate_xi |-> "", elementwise |-> FALSE]

\* M / d: a real matrix as integer numerators over one positive denominator
Rat(M, d) == [num |-> M, den |-> d]

\* No statistics in a caller's hands, no base problem built.
NoHeld == [has |-> FALSE, key |-> <<>>, ret |-> <<>>, now |-> <<>>, kept |-> FALSE,
           again |-> FALSE]

NoProblem == [inv_method |-> "", constant |-> "", form |-> "", F |-> Rat(<<>>, 1),
              H |-> Rat(<<>>, 1), rank_H_reg |-> 0, G_T |-> Rat(<<>>, 1),
              c |-> Rat(0, 1)]

Init ==
    /\ polite_stop = FALSE
    /\ pc = "idle"
    /\ variant = "LmiEdmdTikhonovReg"
    /\ max_iter = 1
    /\ tol = 0
    /\ rho_bar = [num |-> 1, den |-> 1]
    /\ p_theta = 1
    /\ p = 1
    /\ k = 0
    /\ U = <<>>
    /\ U_prev = <<>>
    /\ cert = <<>>
    /\ difference = <<>>
    /\ problem_a = <<>>
    /\ problem_b = <<>>
    /\ fitted = {}
    /\ stop_reason_ = NoReason
    /\ n_iter_ = 0
    /\ coef_ = <<>>
    /\ tol_reached_ = <<>>
    /\ cert_ = <<>>
    /\ solution_status_ = ""
    /\ outcome = "none"
    /\ reqThisFit = FALSE
    /\ staleFlag = FALSE
    /\ raisedAt = NotRaised
    /\ nSolveA = 0
    /\ nSolveB = 0
    /\ nDone = 0
    /\ lastStatus = ""
    /\ lastValid = <<>>
    /\ rounds = 0
    /\ prevRoundU = <<>>
    /\ lastCert = <<>>
    /\ lastCertFrom = <<>>
    /\ stage = "new"
    /\ args = NoArgs
    /\ est = NoArgs
    /\ call = NoCall
    /\ trace = <<>>
    /\ result = ""
    /\ blocks = {}
    /\ disk = [stats |-> <<>>, factor |-> <<>>]
    /\ first = <<>>
    /\ held = NoHeld
    /\ problem = NoProblem
    /\ bstage = "none"
    /\ sol = ""

(***************************************************************************)
(* Pieces of fit                                                           *)
(***************************************************************************)
Running == {"solve", "pollA", "solveA", "pollB", "solveB"}

\* What `fit` hands back when it reaches its end: LmiEdmdTikhonovRegSvd.fit
\* and LmiEdmdSpectralRadiusConstrIco.fit end without a return statement.
FitReturn(v) ==
    IF v \in {"LmiEdmdTikhonovRegSvd", "LmiEdmdSpectralRadiusConstrIco"}
    THEN "None" ELSE "self"

\* Attributes set before the first solve: _validate_parameters, _validate_data
\* and the lines of fit that follow them.
EarlyAttrs(v) ==
    {"solver_params_", "n_features_in_", "alpha_tikhonov_reg_"}
    \cup (IF v = "LmiEdmdTikhonovRegSvd"
          THEN {"Q_X_", "Vt_X_", "Q_y_", "Vt_y_", "S_X_", "Si_X_", "S_y_", "Si_y_"}
          ELSE {})
    \cup (IF v \in {"LmiEdmdTwoNormReg", "LmiEdmdNuclearNormReg", "LmiEdmdHinfReg"}
          THEN {"alpha_other_reg_"} ELSE {})
    \cup (IF v = "LmiEdmdDissipativityConstr" THEN {"supply_rate_xi_"} ELSE {})

\* Attributes the lines after the loop of an iterative fit set.
FinalAttrs(v) ==
    {"tol_reached_", "n_iter_", "coef_"}
    \cup (IF v = "LmiEdmdSpectralRadiusConstr" THEN {"Gamma_", "P_"} ELSE {})
    \cup (IF v = "LmiEdmdHinfReg" THEN {"P_", "gamma_"} ELSE {})
    \cup (IF v = "LmiEdmdDissipativityConstr" THEN {"P_"} ELSE {})

\* The seed certificate: np.eye(p_theta), or for LmiEdmdHinfReg the P_0
\* keyword ('hot' runs _hot_start), or for the Ico variant _initial_guess;
\* c0 is what the seed solve or the caller supplies.
SeedCert(v, pt, p0, c0) ==
    CASE v = "LmiEdmdSpectralRadiusConstrIco" -> c0
      [] v = "LmiEdmdHinfReg" /\ p0 # "None" -> c0
      [] OTHER -> Eye(pt)

\* (faulty variant: the estimate stored is the U of the last completed round)
FinishStoresRoundU(reason, diff, u, c) ==
    /\ stop_reason_' = reason
    /\ tol_reached_' = diff
    /\ n_iter_' = k + 1
    /\ coef_' = Transpose(U_prev)
    /\ cert_' = IF variant = "LmiEdmdSpectralRadiusConstrIco" THEN cert_ ELSE c
    /\ fitted' = fitted \cup {"stop_reason_"} \cup FinalAttrs(variant)
    /\ solution_status_' = solution_status_
    /\ pc' = "done"
    /\ outcome' = FitReturn(variant)

\* (faulty variant: the certificate stored is the one the round started with)
FinishStoresRoundCert(reason, diff, u, c) ==
    /\ stop_reason_' = reason
    /\ tol_reached_' = diff
    /\ n_iter_' = k + 1
    /\ coef_' = Transpose(u)
    /\ cert_' = IF variant = "LmiEdmdSpectralRadiusConstrIco" THEN cert_ ELSE cert
    /\ fitted' = fitted \cup {"stop_reason_"} \cup FinalAttrs(variant)
    /\ solution_status_' = solution_status_
    /\ pc' = "done"
    /\ outcome' = FitReturn(variant)

\* (faulty variant: the difference stored is the one the round started with)
FinishStoresRoundDifference(reason, diff, u, c) ==
    /\ stop_reason_' = reason
    /\ tol_reached_' = difference
    /\ n_iter_' = k + 1
    /\ coef_' = Transpose(u)
    /\ cert_' = IF variant = "LmiEdmdSpectralRadiusConstrIco" THEN cert_ ELSE c
    /\ fitted' = fitted \cup {"stop_reason_"} \cup FinalAttrs(variant)
    /\ solution_status_' = solution_status_
    /\ pc' = "done"
    /\ outcome' = FitReturn(variant)

\* (faulty variant: the count stored is the 0-based loop index)
FinishCountsFromZero(reason, diff, u, c) ==
    /\ stop_reason_' = reason
    /\ tol_reached_' = diff
    /\ n_iter_' = k
    /\ coef_' = Transpose(u)
    /\ cert_' = IF variant = "LmiEdmdSpectralRadiusConstrIco" THEN cert_ ELSE c
    /\ fitted' = fitted \cup {"stop_reason_"} \cup FinalAttrs(variant)
    /\ solution_status_' = solution_status_
    /\ pc' = "done"
    /\ outcome' = FitReturn(variant)

\* The end of an iterative fit: stop_reason_ is set at the `break` (or in the
\* for-else), then tol_reached_, n_iter_ = k + 1, coef_ = U.T and the
\* certificate are stored and fit returns.
Finish(reason, diff, u, c) ==
    /\ stop_reason_' = reason
    /\ tol_reached_' = diff
    /\ n_iter_' = k + 1
    /\ coef_' = Transpose(u)
    /\ cert_' = IF variant = "LmiEdmdSpectralRadiusConstrIco" THEN cert_ ELSE c
    /\ fitted' = fitted \cup {"stop_reason_"} \cup FinalAttrs(variant)
    /\ solution_status_' = solution_status_
    /\ pc' = "done"
    /\ outcome' = FitReturn(variant)

\* fit has returned or raised: its locals are gone.
LocalsGone ==
    /\ k' = 0 /\ U' = <<>> /\ U_prev' = <<>> /\ cert' = <<>> /\ difference' = <<>>
    /\ problem_a' = <<>> /\ problem_b' = <<>>

\* The stopping test after a full round, and the loop's next turn.
\* (faulty variant: one round more than range(max_iter) allows)
EndRoundOneMore(u, c) ==
    LET d == _fast_frob_norm(MatSub(U_prev, u)) IN
    /\ rounds' = rounds + 1
    /\ IF BelowTol(d, tol)
       THEN Finish(ReachedTol(tol), <<d>>, u, c) /\ LocalsGone
       ELSE IF k + 1 <= max_iter
            THEN /\ k' = k + 1
                 /\ U' = u /\ cert' = c /\ difference' = <<d>> /\ U_prev' = u
                 /\ problem_a' = [constant |-> c] /\ problem_b' = problem_b
                 /\ pc' = "pollA"
                 /\ UNCHANGED <<attrs, outcome>>
            ELSE Finish(ReachedMaxIter(max_iter), <<d>>, u, c) /\ LocalsGone

\* (faulty variant: the next round is built from the certificate of the round
\* before, not from the one problem_b has just produced)
EndRoundStaleCert(u, c) ==
    LET d == _fast_frob_norm(MatSub(U_prev, u)) IN
    /\ rounds' = rounds + 1
    /\ IF BelowTol(d, tol)
       THEN Finish(ReachedTol(tol), <<d>>, u, c) /\ LocalsGone
       ELSE IF k + 1 < max_iter
            THEN /\ k' = k + 1
                 /\ U' = u /\ cert' = cert /\ difference' = <<d>> /\ U_prev' = u
                 /\ problem_a' = [constant |-> cert] /\ problem_b' = problem_b
                 /\ pc' = "pollA"
                 /\ UNCHANGED <<attrs, outcome>>
            ELSE Finish(ReachedMaxIter(max_iter), <<d>>, u, c) /\ LocalsGone

\* lines 384-392: difference, the test against tol, U_prev = U, the for-else;
\* the next turn of the loop starts by building problem_a
EndRound(u, c) ==
    LET d == _fast_frob_norm(MatSub(U_prev, u)) IN
    /\ rounds' = rounds + 1
    /\ IF BelowTol(d, tol)
       THEN Finish(ReachedTol(tol), <<d>>, u, c) /\ LocalsGone
       ELSE IF k + 1 < max_iter
            THEN /\ k' = k + 1
                 /\ U' = u /\ cert' = c /\ difference' = <<d>> /\ U_prev' = u
                 /\ problem_a' = [constant |-> c] /\ problem_b' = problem_b
                 /\ pc' = "pollA"
                 /\ UNCHANGED <<attrs, outcome>>
            ELSE Finish(ReachedMaxIter(max_iter), <<d>>, u, c) /\ LocalsGone

(***************************************************************************)
(* Actions                                                                 *)
(***************************************************************************)
\* SIGINT: sets the module-level flag and nothing else.
\* (faulty variant: the signal also aborts the running fit, as Python's
\* default handler would with KeyboardInterrupt)
sigint_handler_interrupts ==
    /\ UNCHANGED aux
    /\ polite_stop' = TRUE
    /\ pc' = IF pc \in Running THEN "done" ELSE pc
    /\ outcome' = IF pc \in Running THEN "KeyboardInterrupt" ELSE outcome
    /\ reqThisFit' = (reqThisFit \/ pc \in Running)
    /\ raisedAt' = IF ~polite_stop /\ pc \in Running
                   THEN [rounds |-> rounds, pc |-> pc] ELSE raisedAt
    /\ UNCHANGED <<params, locals, attrs, staleFlag, nSolveA, nSolveB, nDone,
                   lastStatus, lastValid, rounds, prevRoundU, lastCert, lastCertFrom>>

sigint_handler ==
    /\ UNCHANGED aux
    /\ polite_stop' = TRUE
    /\ reqThisFit' = (reqThisFit \/ pc \in Running)
    /\ raisedAt' = IF ~polite_stop /\ pc \in Running
                   THEN [rounds |-> rounds, pc |-> pc] ELSE raisedAt
    /\ UNCHANGED <<pc, params, locals, attrs, outcome, staleFlag, nSolveA, nSolveB,
                   nDone, lastStatus, lastValid, rounds, prevRoundU, lastCert, lastCertFrom>>

\* estimator.fit(X, y, **kwargs) up to the first solve or the first poll.
Fit(v, mi, t, rb, pp, p0, c0) ==
    /\ UNCHANGED aux
    /\ pc = "idle"
    /\ variant' = v /\ max_iter' = mi /\ tol' = t /\ rho_bar' = rb
    /\ p_theta' = 1 /\ p' = pp
    /\ reqThisFit' = FALSE /\ raisedAt' = NotRaised
    /\ nSolveA' = 0 /\ nSolveB' = 0 /\ nDone' = 0 /\ lastStatus' = "" /\ rounds' = 0
    /\ lastValid' = Zeros(1, pp) /\ prevRoundU' = Zeros(1, pp)
    /\ lastCert' = IF v \in Iterative /\ ~(v = "LmiEdmdHinfReg" /\ pp = 1) /\ mi >= 1
                   THEN SeedCert(v, 1, p0, c0) ELSE <<>>
    /\ lastCertFrom' = <<>>
    /\ UNCHANGED <<polite_stop, staleFlag, n_iter_, coef_, cert_, solution_status_>>
    /\ IF v \in SingleShot
       THEN \* the problem is built and problem.solve() is entered
            /\ pc' = "solve" /\ outcome' = "running"
            /\ fitted' = EarlyAttrs(v)
            /\ LocalsGone
            /\ UNCHANGED <<stop_reason_, tol_reached_>>
       ELSE IF v = "LmiEdmdHinfReg" /\ pp = 1
       THEN \* p_theta == p: 'requires an input to function'
            /\ pc' = "done" /\ outcome' = "ValueError"
            /\ fitted' = EarlyAttrs(v)
            /\ LocalsGone
            /\ UNCHANGED <<stop_reason_, tol_reached_>>
       ELSE IF mi >= 1
            THEN /\ U' = Zeros(1, pp) /\ U_prev' = Zeros(1, pp)
                 /\ cert' = SeedCert(v, 1, p0, c0)
                 /\ difference' = <<>>
                 /\ problem_a' = [constant |-> SeedCert(v, 1, p0, c0)]
                 /\ problem_b' = <<>>
                 /\ k' = 0 /\ pc' = "pollA" /\ outcome' = "running"
                 /\ fitted' = EarlyAttrs(v)
                 /\ UNCHANGED <<stop_reason_, tol_reached_>>
            ELSE \* range(max_iter) is empty: the for-else runs, then
                 \* `k + 1` reads a name that was never bound
                 /\ LocalsGone
                 /\ stop_reason_' = ReachedMaxIter(mi)
                 /\ tol_reached_' = <<>>
                 /\ fitted' = EarlyAttrs(v) \cup {"stop_reason_", "tol_reached_"}
                 /\ pc' = "done" /\ outcome' = "UnboundLocalError"

\* problem.solve() of a single-shot fit returns; the status is stored and the
\* solution extracted without looking at the status.  get_valued_variable
\* raises when the solver left U without a value, which it may do when it
\* claims infeasibility.
SolveSingle(st, valued, u) ==
    /\ UNCHANGED aux
    /\ pc = "solve"
    /\ st \in {"optimal", "feasible"} => valued
    /\ nDone' = nDone + 1 /\ lastStatus' = st
    /\ solution_status_' = st
    /\ pc' = "done"
    /\ IF valued
       THEN /\ coef_' = Transpose(u)
            /\ fitted' = fitted \cup {"solution_status_", "coef_"}
            /\ outcome' = FitReturn(variant)
       ELSE /\ coef_' = coef_
            /\ fitted' = fitted \cup {"solution_status_"}
            /\ outcome' = "NotValued"
    /\ LocalsGone
    /\ UNCHANGED <<polite_stop, params, stop_reason_, n_iter_, tol_reached_,
                   cert_, reqThisFit, staleFlag, raisedAt, nSolveA, nSolveB,
                   lastValid, rounds, prevRoundU, lastCert, lastCertFrom>>

\* `if polite_stop:` before problem_a.solve()
PollA ==
    /\ UNCHANGED aux
    /\ pc = "pollA"
    /\ IF polite_stop
       THEN Finish(UserStop, difference, U, cert) /\ LocalsGone /\ nSolveA' = nSolveA
       ELSE /\ pc' = "solveA" /\ nSolveA' = nSolveA + 1
            /\ UNCHANGED <<locals, attrs, outcome>>
    /\ UNCHANGED <<polite_stop, params, reqThisFit, staleFlag, raisedAt,
                   nSolveB, nDone, lastStatus, lastValid, rounds, prevRoundU, lastCert, lastCertFrom>>

\* problem_a.solve() returns (the only solve of a round in the Ico variant)
\* (faulty variant: the status is not tested and U is taken whatever it is)
SolveA_KeepsGoing(st, u, c) ==
    /\ UNCHANGED aux
    /\ pc = "solveA"
    /\ nDone' = nDone + 1 /\ lastStatus' = st
    /\ lastValid' = IF st = "optimal" THEN u ELSE lastValid
    /\ U' = u /\ pc' = "pollB" /\ rounds' = rounds
    /\ problem_b' = [constant |-> u]
    /\ UNCHANGED <<k, U_prev, cert, difference, problem_a, attrs, outcome>>
    /\ UNCHANGED <<polite_stop, params, reqThisFit, staleFlag, raisedAt, nSolveA, nSolveB,
                   prevRoundU, lastCert, lastCertFrom>>

\* lines 355-365 (470-488 in the Ico variant)
SolveA(st, u, c) ==
    /\ UNCHANGED aux
    /\ pc = "solveA"
    /\ nDone' = nDone + 1 /\ lastStatus' = st
    /\ IF st # "optimal"
       THEN /\ Finish(Unable(IF variant = "LmiEdmdSpectralRadiusConstrIco"
                             THEN "problem" ELSE "problem_a", st),
                      difference, U, cert)
            /\ LocalsGone
            /\ UNCHANGED <<lastValid, rounds>>
       ELSE /\ lastValid' = u
            /\ IF variant = "LmiEdmdSpectralRadiusConstrIco"
               THEN EndRound(u, c)
               ELSE \* problem_b is built from this U before the flag is read
                    /\ U' = u /\ pc' = "pollB" /\ rounds' = rounds
                    /\ problem_b' = [constant |-> u]
                    /\ UNCHANGED <<k, U_prev, cert, difference, problem_a, attrs, outcome>>
    /\ prevRoundU' = IF rounds' = rounds + 1 THEN u ELSE prevRoundU
    /\ lastCert' = IF rounds' = rounds + 1 THEN c ELSE lastCert
    /\ UNCHANGED <<polite_stop, params, reqThisFit, staleFlag, raisedAt, nSolveA, nSolveB,
                   lastCertFrom>>

\* `if polite_stop:` before problem_b.solve()
\* (faulty variant: the flag is not read)
PollB_NoPoll ==
    /\ UNCHANGED aux
    /\ pc = "pollB"
    /\ pc' = "solveB" /\ nSolveB' = nSolveB + 1
    /\ UNCHANGED <<attrs, outcome>>
    /\ UNCHANGED <<polite_stop, params, locals, reqThisFit, staleFlag, raisedAt,
                   nSolveA, nDone, lastStatus, lastValid, rounds, prevRoundU, lastCert, lastCertFrom>>

PollB ==
    /\ UNCHANGED aux
    /\ pc = "pollB"
    /\ IF polite_stop
       THEN Finish(UserStop, difference, U, cert) /\ LocalsGone /\ nSolveB' = nSolveB
       ELSE /\ pc' = "solveB" /\ nSolveB' = nSolveB + 1
            /\ UNCHANGED <<locals, attrs, outcome>>
    /\ UNCHANGED <<polite_stop, params, reqThisFit, staleFlag, raisedAt,
                   nSolveA, nDone, lastStatus, lastValid, rounds, prevRoundU, lastCert, lastCertFrom>>

\* problem_b.solve() returns.  LmiEdmdHinfReg formats its message without the
\* f prefix, so the text holds the placeholder and not the status.
SolveB(st, c) ==
    /\ UNCHANGED aux
    /\ pc = "solveB"
    /\ nDone' = nDone + 1 /\ lastStatus' = st
    /\ IF st # "optimal"
       THEN /\ Finish(Unable("problem_b",
                             IF variant = "LmiEdmdHinfReg"
                             THEN "{solution_status_b}" ELSE st),
                      difference, U, cert)
            /\ LocalsGone
            /\ UNCHANGED rounds
       ELSE EndRound(U, c)
    /\ prevRoundU' = IF rounds' = rounds + 1 THEN U ELSE prevRoundU
    /\ lastCert' = IF rounds' = rounds + 1 THEN c ELSE lastCert
    /\ lastCertFrom' = IF rounds' = rounds + 1 THEN problem_b.constant ELSE lastCertFrom
    /\ UNCHANGED <<polite_stop, params, reqThisFit, staleFlag, raisedAt, nSolveA, nSolveB, lastValid>>

\* A new estimator is constructed for the next, separate fit; the module and
\* its flag stay as they are.
Construct ==
    /\ UNCHANGED aux
    /\ pc = "done"
    /\ pc' = "idle"
    /\ staleFlag' = (staleFlag \/ polite_stop)
    /\ variant' = "LmiEdmdTikhonovReg" /\ max_iter' = 1 /\ tol' = 0
    /\ rho_bar' = [num |-> 1, den |-> 1]
    /\ p_theta' = 1 /\ p' = 1
    /\ LocalsGone
    /\ fitted' = {} /\ stop_reason_' = NoReason /\ n_iter_' = 0 /\ coef_' = <<>>
    /\ tol_reached_' = <<>> /\ cert_' = <<>> /\ solution_status_' = ""
    /\ outcome' = "none"
    /\ reqThisFit' = FALSE /\ raisedAt' = NotRaised
    /\ nSolveA' = 0 /\ nSolveB' = 0 /\ nDone' = 0 /\ lastStatus' = ""
    /\ lastValid' = <<>> /\ rounds' = 0 /\ prevRoundU' = <<>> /\ lastCert' = <<>>
    /\ lastCertFrom' = <<>>
    /\ UNCHANGED polite_stop

\* [[a, b], [b, d]] >> 0 for numbers a, b, d
IsPSD2(a, b, d) == a >= 0 /\ d >= 0 /\ a * d - b * b >= 0

\* The constraints LmiEdmdSpectralRadiusConstr._get_problem_a adds to the base
\* problem, at a point (U, P) for the constant Gamma (picos_eps at its
\* default 0):
\*   P >> 0,  [[rho_bar**2 * P, A.T * Gamma], [Gamma.T * A, Gamma + Gamma.T - P]] >> 0
\* with A = U[:, :p_theta].  p_theta is 1 here, so P, Gamma and A are 1 x 1
\* and the block is 2 x 2; it is cleared of the denominator of rho_bar**2.
\* (faulty variant: problem_a is the base problem, without these constraints)
_get_problem_a_base_only(rb, Gamma, u, Pv) == TRUE

_get_problem_a(rb, Gamma, u, Pv) ==
    LET A == u[1][1]
        G == Gamma[1][1]
        d2 == rb.den * rb.den
    IN /\ Pv[1][1] >= 0
       /\ IsPSD2(rb.num * rb.num * Pv[1][1], d2 * A * G, d2 * (G + G - Pv[1][1]))

\* A solve that claims 'optimal' hands back values that satisfy the
\* constraints of its problem: U is such a value if some P goes with it.
FeasibleA(rb, Gamma, u) == \E Pv \in PVals(Rows(u)) : _get_problem_a(rb, Gamma, u, Pv)

\* What a solve hands back: a status and the values of its variables.  Values
\* that fit never reads (those of a solve that did not end optimal or valued,
\* the certificate of a problem_a outside the Ico variant) are fixed to one
\* representative.
Unread(cond, x, rep) == cond => x = rep

FitStep ==
    \/ \E st \in Statuses, valued \in BOOLEAN, u \in UVals(p_theta, p) :
          /\ pc = "solve"
          /\ Unread(~valued, u, Zeros(p_theta, p))
          /\ SolveSingle(st, valued, u)
    \/ PollA
    \/ \E st \in Statuses, u \in UVals(p_theta, p), c \in CertVals(p_theta) :
          /\ pc = "solveA"
          /\ Unread(st # "optimal", u, Zeros(p_theta, p))
          /\ Unread(st # "optimal" \/ variant # "LmiEdmdSpectralRadiusConstrIco",
                    c, Eye(p_theta))
          /\ SolveA(st, u, c)
          /\ (st = "optimal" /\ variant = "LmiEdmdSpectralRadiusConstr") =>
                FeasibleA(rho_bar, problem_a.constant, u)
    \/ PollB
    \/ \E st \in Statuses, c \in CertVals(p_theta) :
          /\ pc = "solveB"
          /\ Unread(st # "optimal", c, Eye(p_theta))
          /\ SolveB(st, c)

Next ==
    \/ sigint_handler
    \/ \E v \in Variants, mi \in 0..MaxIter, t \in TolVals, rb \in RhoBars,
          pp \in Features, p0 \in P0Kinds, c0 \in CertVals(1) :
          /\ pc = "idle"
          /\ Unread(v # "LmiEdmdSpectralRadiusConstr", rb, [num |-> 1, den |-> 1])
          /\ Unread(v # "LmiEdmdHinfReg", p0, "None")
          /\ Unread(SeedCert(v, 1, p0, c0) # c0, c0, Eye(1))
          /\ Unread(v \in SingleShot, mi, 1)
          /\ Unread(v \in SingleShot, t, 0)
          /\ Fit(v, mi, t, rb, pp, p0, c0)
    \/ FitStep
    \/ Construct

Spec == Init /\ [][Next]_vars

\* A called fit keeps running: Python runs the next statement, and every
\* solver call is assumed to return.
FairSpec == Spec /\ WF_vars(FitStep)

(***************************************************************************)
(* Vocabulary of the properties                                            *)
(***************************************************************************)
\* fit came back to its caller without an exception
Returned == outcome \in {"self", "None"}

\* The stop classification a stop reason stands for.
Classify(r) ==
    CASE r.text = UserStop.text -> "UserStopped"
      [] r.text = Unable("", "").text -> "Stalled"
      [] r.text = ReachedTol(0).text -> "Converged"
      [] r.text = ReachedMaxIter(0).text -> "MaxIterReached"
      [] OTHER -> "none"

Classes == {"Converged", "Stalled", "MaxIterReached", "UserStopped"}

\* The squared Frobenius distance of two matrices, entry by entry.
SqDist(A, B) ==
    SumTo([i \in 1..Rows(A) |->
              SumTo([j \in 1..Cols(A) |-> (A[i][j] - B[i][j]) * (A[i][j] - B[i][j])],
                    Cols(A))],
          Rows(A))

(***************************************************************************)
(* C1. In every iterative fit the flag is read immediately before every    *)
(* SolveA and every SolveB: a solve is entered only from its poll, and     *)
(* only when the poll read the flag clear.  When a poll reads the flag     *)
(* set, that solve is not started, the fit ends UserStopped with the       *)
(* user-requested stop reason and the last valid U (transposed) as its     *)
(* estimate, and once the fit has ended no solve is started.               *)
(***************************************************************************)
C1_PollBeforeEverySolve ==
    [][ /\ (pc' = "solveA" /\ pc # "solveA") => (pc = "pollA" /\ ~polite_stop)
        /\ (pc' = "solveB" /\ pc # "solveB") => (pc = "pollB" /\ ~polite_stop)
        /\ (nSolveA' > nSolveA) => (pc = "pollA" /\ pc' = "solveA")
        /\ (nSolveB' > nSolveB) => (pc = "pollB" /\ pc' = "solveB")
        /\ (pc \in {"pollA", "pollB"} /\ polite_stop /\ pc' # pc) =>
              /\ pc' = "done"
              /\ nSolveA' = nSolveA /\ nSolveB' = nSolveB
              /\ Returned'
              /\ "stop_reason_" \in fitted' /\ stop_reason_' = UserStop
              /\ Classify(stop_reason_') = "UserStopped"
              /\ "coef_" \in fitted' /\ coef_' = Transpose(lastValid)
        /\ (pc = "done") => (pc' \in {"done", "idle"})
      ]_vars

\* A fit stopped at the poll before its second SolveB, holding the U of its
\* second SolveA.
C1_Witness ==
    /\ pc = "done" /\ variant \in Iterative
    /\ stop_reason_ = UserStop
    /\ nSolveA = 2 /\ nSolveB = 1 /\ nDone = 3
    /\ coef_ = Transpose(lastValid) /\ coef_ # Transpose(Zeros(p_theta, p))

(***************************************************************************)
(* C2. If the flag is raised after the first outer round has completed and *)
(* before the second begins, the fit ends with the user-requested stop     *)
(* reason, iteration count 1 and the first round's result as estimate.     *)
(* Refuted by the code: the poll of round 2 breaks with k = 1 and          *)
(* n_iter_ = k + 1 = 2.                                                    *)
(***************************************************************************)
C2_StopBeforeSecondRound ==
    (/\ pc = "done" /\ variant \in Iterative
     /\ raisedAt = [rounds |-> 1, pc |-> "pollA"])
    => (/\ stop_reason_ = UserStop
        /\ n_iter_ = 1
        /\ coef_ = Transpose(prevRoundU))

(***************************************************************************)
(* C3. A solve of the alternation that returns a status other than optimal *)
(* raises nothing: the fit ends Stalled at that step, starts no further    *)
(* solve and returns with the last valid U, transposed, as its estimate.   *)
(***************************************************************************)
C3_NonOptimalStalls ==
    [][ /\ (pc \in {"solveA", "solveB"} /\ pc' # pc /\ lastStatus' # "optimal") =>
              /\ pc' = "done"
              /\ Returned'
              /\ "stop_reason_" \in fitted'
              /\ Classify(stop_reason_') = "Stalled"
              /\ "coef_" \in fitted' /\ coef_' = Transpose(lastValid)
              /\ lastValid' = lastValid
              /\ nSolveA' = nSolveA /\ nSolveB' = nSolveB
        /\ (pc = "done" /\ Classify(stop_reason_) = "Stalled") => (pc' \in {"done", "idle"})
      ]_vars

\* A fit stalled in the SolveB of its second round.
C3_Witness ==
    /\ pc = "done" /\ variant \in Iterative /\ Returned
    /\ lastStatus = "infeasible"
    /\ Classify(stop_reason_) = "Stalled" /\ stop_reason_.prob = "problem_b"
    /\ nSolveA = 2 /\ nSolveB = 2 /\ rounds = 1
    /\ coef_ # Transpose(prevRoundU)

(***************************************************************************)
(* C4. When a round completes (SolveA and SolveB optimal), the Frobenius   *)
(* norm of this round's U minus the previous round's U (zeros for the      *)
(* first round) is compared with tol: strictly below, the fit ends         *)
(* Converged; otherwise the next round starts, unless max_iter rounds      *)
(* have run, and then the fit ends MaxIterReached.                         *)
(***************************************************************************)
C4_ConvergenceTest ==
    [][ (rounds' = rounds + 1) =>
          LET d == SqDist(lastValid', prevRoundU) IN
          IF tol > 0 /\ d < tol * tol
          THEN /\ pc' = "done" /\ Returned'
               /\ Classify(stop_reason_') = "Converged"
               /\ tol_reached_' = <<d>>
               /\ coef_' = Transpose(lastValid')
          ELSE IF rounds' < max_iter
               THEN /\ pc' = "pollA" /\ k' = rounds'
                    /\ U_prev' = lastValid' /\ difference' = <<d>>
               ELSE /\ pc' = "done" /\ Returned'
                    /\ Classify(stop_reason_') = "MaxIterReached"
                    /\ tol_reached_' = <<d>>
                    /\ coef_' = Transpose(lastValid')
      ]_vars

\* A fit whose first round moved U away from zero (no convergence) and whose
\* second round returned the same U again (convergence).
C4_Witness ==
    /\ pc = "done" /\ variant \in Iterative
    /\ rounds = 2 /\ tol = 1
    /\ Classify(stop_reason_) = "Converged"
    /\ tol_reached_ = <<0>>
    /\ coef_ # Transpose(Zeros(p_theta, p))

(***************************************************************************)
(* C5. With every solver call returning, an iterative fit with             *)
(* max_iter >= 1 ends: it starts at most max_iter SolveA and max_iter       *)
(* SolveB, completes at most max_iter rounds, and ends in one of           *)
(* Converged, Stalled, MaxIterReached, UserStopped with an iteration count *)
(* between 1 and max_iter.                                                 *)
(***************************************************************************)
C5_Bounded ==
    (variant \in Iterative /\ max_iter >= 1 /\ pc # "idle") =>
        /\ nSolveA <= max_iter /\ nSolveB <= max_iter /\ rounds <= max_iter
        /\ nSolveB <= nSolveA
        /\ pc \in Running => (k < max_iter /\ rounds = k)
        /\ (pc = "done" /\ Returned) =>
              /\ "stop_reason_" \in fitted
              /\ Classify(stop_reason_) \in Classes
              /\ "n_iter_" \in fitted
              /\ n_iter_ >= 1 /\ n_iter_ <= max_iter

\* C5: the bounds above hold in every state, and every iterative fit that is
\* running reaches its end (under FairSpec: the fit's own steps are taken).
C5_Terminates ==
    /\ []C5_Bounded
    /\ [](variant \in Iterative /\ pc \in Running => <>(pc = "done"))

\* A fit that used up all its rounds.
C5_Witness ==
    /\ pc = "done" /\ variant \in Iterative
    /\ max_iter = MaxIter /\ nSolveA = max_iter /\ nSolveB = max_iter
    /\ Classify(stop_reason_) = "MaxIterReached"
    /\ n_iter_ = max_iter

(***************************************************************************)
(* C6. Every model fit returns, single-shot or iterative, carries a        *)
(* stop-reason field holding one of the stop reasons.                      *)
(* Refuted by the code: the single-shot fits never set stop_reason_.       *)
(***************************************************************************)
C6_StopReasonAlways ==
    (pc = "done" /\ Returned) =>
        ("stop_reason_" \in fitted /\ Classify(stop_reason_) \in Classes)

(***************************************************************************)
(* C7. In a single-shot fit a solver status other than optimal is a hard   *)
(* failure: fit raises (SolverFailure; any exception is taken for it here) *)
(* and stores no operator estimate.                                        *)
(* Refuted by the code: the status is stored, never tested.                *)
(***************************************************************************)
C7_SingleShotHardFailure ==
    (pc = "done" /\ variant \in SingleShot /\ lastStatus # "optimal") =>
        (~Returned /\ "coef_" \notin fitted)

(***************************************************************************)
(* C8. Independent fits share no mutable state: a cancellation raised      *)
(* during or before an earlier fit never changes the outcome of a later,   *)
(* separate fit, so a fit during which no cancellation was requested does  *)
(* not end UserStopped.                                                    *)
(* Refuted by the code: polite_stop is module-level and never reset.       *)
(***************************************************************************)
C8_FitsIndependent ==
    (pc = "done" /\ variant \in Iterative /\ staleFlag /\ ~reqThisFit) =>
        Classify(stop_reason_) # "UserStopped"

(***************************************************************************)
(* C9. The flag may be set at any point of a fit, also while a solve is    *)
(* in progress.  Setting it changes nothing else; a solve in progress      *)
(* completes and its result is applied in full; and the estimate a fit     *)
(* stores is the whole U of one optimal SolveA (or the initial zeros),     *)
(* with every solve that was started completed.                            *)
(***************************************************************************)
C9_FlagOnlyAtPolls ==
    [][ /\ (polite_stop' # polite_stop) =>
              (polite_stop' /\ UNCHANGED <<pc, params, locals, attrs, outcome>>)
        /\ (pc \in {"solveA", "solveB"} /\ polite_stop) => (pc' # "idle")
        /\ (pc \in {"solveA", "solveB"} /\ pc' # pc) =>
              /\ nDone' = nDone + 1
              /\ (pc = "solveA" /\ lastStatus' = "optimal" /\ pc' # "done") =>
                     U' = lastValid'
        /\ (variant \in Iterative /\ pc \in Running /\ pc' = "done") =>
              /\ Returned'
              /\ "coef_" \in fitted' /\ coef_' = Transpose(lastValid')
              /\ nDone' = nSolveA' + nSolveB'
      ]_vars

\* The flag was first set while the second SolveA was in progress; that solve
\* completed, its U was stored, and the next poll stopped the fit.
C9_Witness ==
    /\ pc = "done" /\ variant \in Iterative
    /\ raisedAt = [rounds |-> 1, pc |-> "solveA"]
    /\ stop_reason_ = UserStop
    /\ nSolveA = 2 /\ nSolveB = 1 /\ nDone = 3
    /\ coef_ = Transpose(lastValid) /\ coef_ # Transpose(prevRoundU)

(***************************************************************************)
(* C10. fit returns the estimator itself on every successful path of       *)
(* every estimator variant and on every stop classification.               *)
(* Refuted by the code: the SVD and Ico fits end without `return self`.    *)
(***************************************************************************)
C10_FitReturnsSelf ==
    (pc = "done" /\ Returned) => outcome = "self"


(***************************************************************************)
(* The part of fit before its first solver call                            *)
(*                                                                         *)
(* A second view of the same estimators: the constructor with all of its   *)
(* hyperparameters, then fit run as one step up to the first call of the   *)
(* solver or the first exception.  The data handed to fit is taken to be   *)
(* well-formed (same number of rows, at least two samples) and H to be     *)
(* positive definite; the statistics themselves are modelled further down. *)
(***************************************************************************)
Mixing == {"LmiEdmdTwoNormReg", "LmiEdmdNuclearNormReg", "LmiEdmdHinfReg"}

SpectralRadius == {"LmiEdmdSpectralRadiusConstr", "LmiEdmdSpectralRadiusConstrIco"}

\* Values the hyperparameters are drawn from.
AlphaVals == {-1, 0, 1}

RatioVals == {-1, 0, 1, 2}

InvMethods == {"inv", "pinv", "eig", "ldl", "chol", "sqrt", "blah"}

EpsVals == {-1, 0}

RhoVals == {-1, 0, 1}

TolArgs == {-1, 1}

MaxIterArgs == {-1, 0, 1}

\* y.shape[1] in this view; X has p_theta or p_theta + 1 columns.
PThetas == {1, 2}

\* supply_rate_xi: not among the keywords, an array of shape (p, p), an array
\* of another shape
XiKinds == {"missing", "pxp", "wrong"}

\* One fixed value for each argument a constructor does not take.
Defaults ==
    [variant |-> "", alpha |-> 0, ratio |-> 1, inv_method |-> "chol", picos_eps |-> 0,
     rho_bar |-> 1, tol |-> 1, max_iter |-> 1]

\* The hyperparameters each constructor takes.
Takes(v) ==
    {"alpha", "inv_method", "picos_eps"}
    \cup (IF v \in Mixing THEN {"ratio"} ELSE {})
    \cup (IF v \in SpectralRadius THEN {"rho_bar"} ELSE {})
    \cup (IF v \in Iterative THEN {"max_iter", "tol"} ELSE {})

\* __init__ stores its arguments as they are; LmiEdmdDissipativityConstr
\* stores 0 for alpha whatever it was given.
__init__(a) ==
    [a EXCEPT !.alpha = IF a.variant = "LmiEdmdDissipativityConstr" THEN 0 ELSE @]

\* (faulty variant: a name the builder has no branch for passes validation)
valid_inv_methods_lax == {"inv", "pinv", "eig", "ldl", "chol", "sqrt", "blah"}

valid_inv_methods == {"inv", "pinv", "eig", "ldl", "chol", "sqrt"}

\* LmiEdmdTikhonovReg._validate_parameters: "ok" or the exception raised
BaseValidate(e) ==
    IF e.alpha < 0 THEN "ValueError"
    ELSE IF e.inv_method \notin valid_inv_methods THEN "ValueError"
    ELSE "ok"

\* _validate_parameters as each class defines it: the three mixing-ratio
\* classes test alpha == 0 and ratio == 0 and then call the base method.
_validate_parameters(e) ==
    IF e.variant \in Mixing
    THEN IF e.alpha = 0 THEN "ValueError"
         ELSE IF e.ratio = 0 THEN "ValueError"
         ELSE BaseValidate(e)
    ELSE BaseValidate(e)

\* The if/elif chain of _get_base_problem: the inv_method each branch tests,
\* the constant its block is built from, and the shape of the block:
\* [[Z, U], [U.T, F]] ("inverse") or [[Z, U*F], [F.T*U.T, I]] ("factor").
SchurBranches ==
    << [m |-> "inv",  F |-> "H^-1",             form |-> "inverse"],
       [m |-> "pinv", F |-> "H^+",              form |-> "inverse"],
       [m |-> "eig",  F |-> "(V Lambda^(1/2))", form |-> "factor"],
       [m |-> "ldl",  F |-> "(L D^(1/2))",      form |-> "factor"],
       [m |-> "chol", F |-> "L",                form |-> "factor"],
       [m |-> "sqrt", F |-> "sqrt(H)",          form |-> "factor"] >>

\* The branches taken for a name: the first whose test holds.
Taken(m) ==
    {i \in 1..Len(SchurBranches) :
        /\ SchurBranches[i].m = m
        /\ \A j \in 1..(i - 1) : SchurBranches[j].m # m}

\* The block constraints _get_base_problem adds.  LmiEdmdTikhonovRegSvd has
\* its own builder with one block and no use of inv_method.
BaseBlocks(e) ==
    IF e.variant = "LmiEdmdTikhonovRegSvd" THEN {"V_hat"}
    ELSE {SchurBranches[i].F : i \in Taken(e.inv_method)}

\* The pieces of each fit in the order the code runs them, up to the first
\* call of the solver.
Pieces(e, c) ==
    CASE e.variant = "LmiEdmdTikhonovReg" ->
           <<"_validate_parameters", "_validate_data", "_get_base_problem", "solve">>
      [] e.variant = "LmiEdmdTikhonovRegSvd" ->
           <<"svd", "_validate_parameters", "_validate_data", "_get_base_problem", "solve">>
      [] e.variant = "LmiEdmdTwoNormReg" ->
           <<"_validate_parameters", "_validate_data", "_get_base_problem",
             "_add_twonorm", "solve">>
      [] e.variant = "LmiEdmdNuclearNormReg" ->
           <<"_validate_parameters", "_validate_data", "_get_base_problem",
             "_add_nuclear", "solve">>
      [] e.variant = "LmiEdmdSpectralRadiusConstr" ->
           <<"_validate_parameters", "_validate_data", "np.eye(p_theta)",
             "range(max_iter)", "_get_base_problem", "_get_problem_a",
             "polite_stop", "solve">>
      [] e.variant = "LmiEdmdSpectralRadiusConstrIco" ->
           <<"_validate_parameters", "_validate_data", "_initial_guess">>
      [] e.variant = "LmiEdmdHinfReg" ->
           <<"_validate_parameters", "_validate_data", "p_theta == p">>
           \o (CASE c.P_0 = "None" -> <<"np.eye(p_theta)">>
                 [] c.P_0 = "hot" -> <<"P_0 == 'hot'", "_hot_start">>
                 [] OTHER -> <<"P_0 == 'hot'", "P = P_0">>)
           \o <<"range(max_iter)", "_get_base_problem", "_get_problem_a",
                "polite_stop", "solve">>
      [] e.variant = "LmiEdmdDissipativityConstr" ->
           <<"_validate_parameters", "_validate_data", "kwargs['supply_rate_xi']",
             "np.eye(p_theta)", "range(max_iter)", "_get_base_problem",
             "_get_problem_a", "polite_stop", "solve">>

\* The pieces that call the solver: problem.solve() of fit, of _initial_guess
\* and of _hot_start.
SolverPieces == {"solve", "_initial_guess", "_hot_start"}

\* The pieces that read X or y.
DataPieces == {"svd", "_validate_data", "_get_base_problem", "_get_problem_a",
               "_add_twonorm", "_add_nuclear", "_initial_guess", "_hot_start"}

\* `if p_theta == p:` of LmiEdmdHinfReg.fit: X has no column beyond those of y
\* (faulty variant: the test is written with `>`)
no_input_gt(c) == c.p_theta > c.p

no_input(c) == c.p_theta = c.p

\* How one piece ends: "ok", "solving" when it enters the solver, or the
\* exception it raises.  `elif P_0 == 'hot'` compares an array with a string
\* when P_0 is a matrix: a numpy that answers with one False takes the else
\* branch; a numpy that compares element by element answers with an array,
\* whose truth value is a ValueError unless it has a single element.  An empty range(max_iter) runs the for-else and then
\* reads k, which was never bound.  picos.block refuses blocks whose shapes
\* do not fit, which is where a supply rate of the wrong shape is met
\* ("PicosShapeError" stands for whichever exception picos raises there).
PieceResult(piece, e, c) ==
    CASE piece = "_validate_parameters" -> _validate_parameters(e)
      [] piece \in SolverPieces -> "solving"
      [] piece = "p_theta == p" -> IF no_input(c) THEN "ValueError" ELSE "ok"
      [] piece = "P_0 == 'hot'" ->
           IF c.P_0 = "given" /\ c.elementwise /\ c.p_theta * c.p_theta > 1
           THEN "ValueError" ELSE "ok"
      [] piece = "kwargs['supply_rate_xi']" ->
           IF c.supply_rate_xi = "missing" THEN "KeyError" ELSE "ok"
      [] piece = "range(max_iter)" ->
           IF e.max_iter < 1 THEN "UnboundLocalError" ELSE "ok"
      [] piece = "_get_base_problem" ->
           IF BaseBlocks(e) = {} THEN "ValueError" ELSE "ok"
      [] piece = "_get_problem_a" ->
           IF e.variant = "LmiEdmdDissipativityConstr" /\ c.supply_rate_xi = "wrong"
           THEN "PicosShapeError" ELSE "ok"
      [] OTHER -> "ok"

\* The attributes a piece stores on the estimator.  The regularization
\* coefficients are assigned on the lines that follow _validate_data; the empty
\* range(max_iter) stores the for-else's stop reason and the None difference
\* before it raises; every other piece that raises stores nothing.
PieceStores(piece, e, c) ==
    CASE piece = "svd" ->
           {"Q_X_", "Vt_X_", "Q_y_", "Vt_y_", "S_X_", "Si_X_", "S_y_", "Si_y_"}
      [] piece = "_validate_parameters" /\ PieceResult(piece, e, c) = "ok" ->
           {"solver_params_"}
      [] piece = "_validate_data" ->
           {"n_features_in_", "alpha_tikhonov_reg_"}
           \cup (IF e.variant \in Mixing THEN {"alpha_other_reg_"} ELSE {})
      [] piece = "kwargs['supply_rate_xi']" /\ PieceResult(piece, e, c) = "ok" ->
           {"supply_rate_xi_"}
      [] piece = "range(max_iter)" /\ PieceResult(piece, e, c) # "ok" ->
           {"stop_reason_", "tol_reached_"}
      [] OTHER -> {}

\* The attributes the estimator holds when the pieces tr have run.
Stored(e, c, tr) == UNION {PieceStores(tr[i], e, c) : i \in 1..Len(tr)}

\* fit runs its pieces in order and stops at the first that does not end "ok".
LastPiece(e, c) ==
    LET ps == Pieces(e, c) IN
    CHOOSE n \in 1..Len(ps) :
        /\ PieceResult(ps[n], e, c) # "ok"
        /\ \A j \in 1..(n - 1) : PieceResult(ps[j], e, c) = "ok"

\* The constructor call.
NewEstimator(a) ==
    /\ stage = "new"
    /\ stage' = "constructed"
    /\ args' = a
    /\ est' = __init__(a)
    /\ call' = NoCall /\ trace' = <<>> /\ result' = "" /\ blocks' = {}
    /\ UNCHANGED <<stepvars, statvars>>

\* estimator.fit(X, y, **kwargs) up to its first solver call or exception.
FitPrefix(c) ==
    /\ stage = "constructed"
    /\ stage' = "fitted"
    /\ call' = c
    /\ LET ps == Pieces(est, c)
           n == LastPiece(est, c)
       IN /\ trace' = SubSeq(ps, 1, n)
          /\ result' = PieceResult(ps[n], est, c)
          /\ blocks' = IF \E j \in 1..n : ps[j] = "_get_base_problem"
                       THEN BaseBlocks(est) ELSE {}
    /\ UNCHANGED <<args, est, stepvars, statvars>>

\* The estimator is dropped once its fit has ended.
Discard ==
    /\ stage = "fitted"
    /\ stage' = "new"
    /\ args' = NoArgs /\ est' = NoArgs
    /\ call' = NoCall /\ trace' = <<>> /\ result' = "" /\ blocks' = {}
    /\ UNCHANGED <<stepvars, statvars>>

PrefixNext ==
    \/ /\ stage = "new"
       /\ \E v \in Variants, al \in AlphaVals, ra \in RatioVals, im \in InvMethods,
             pe \in EpsVals, rb \in RhoVals, tl \in TolArgs, mi \in MaxIterArgs :
             LET a == [variant |-> v, alpha |-> al, ratio |-> ra, inv_method |-> im,
                       picos_eps |-> pe, rho_bar |-> rb, tol |-> tl, max_iter |-> mi]
             IN /\ \A f \in (DOMAIN Defaults \ {"variant"}) \ Takes(v) :
                       a[f] = Defaults[f]
                /\ NewEstimator(a)
    \/ /\ stage = "constructed"
       /\ \E pt \in PThetas, pp \in Features, p0 \in P0Kinds, xi \in XiKinds,
             ew \in BOOLEAN :
             /\ Unread(est.variant # "LmiEdmdHinfReg", p0, "None")
             /\ Unread(est.variant # "LmiEdmdDissipativityConstr", xi, "missing")
             /\ Unread(p0 # "given", pt, 1)
             /\ Unread(p0 # "given", ew, FALSE)
             /\ FitPrefix([p_theta |-> pt, p |-> pt + pp - 1, P_0 |-> p0,
                           supply_rate_xi |-> xi, elementwise |-> ew])
    \/ Discard

PrefixSpec == Init /\ [][PrefixNext]_vars

\* fit raised before it read the data or called the solver
RaisedEagerly(exc) ==
    /\ result = exc
    /\ \A i \in 1..Len(trace) : trace[i] \notin DataPieces \cup SolverPieces

\* fit raised without having called the solver
RaisedUnsolved(exc) ==
    /\ result = exc
    /\ \A i \in 1..Len(trace) : trace[i] \notin SolverPieces

(***************************************************************************)
(* C11. For every estimator variant, an estimator constructed with a       *)
(* negative alpha makes fit raise ValueError before any piece that reads   *)
(* the data or calls the solver has run, and the attribute alpha still     *)
(* holds the negative value the constructor was given.                     *)
(***************************************************************************)
C11_NegativeAlphaRejected ==
    (stage = "fitted" /\ args.alpha < 0) =>
        /\ RaisedEagerly("ValueError")
        /\ est.alpha = args.alpha

(***************************************************************************)
(* C12. For the mixing-ratio regularizers (2-norm, nuclear norm,           *)
(* H-infinity) fit raises ValueError, before any solver call, unless       *)
(* alpha > 0 and 0 < ratio <= 1: ratio = 0, a negative ratio, a ratio      *)
(* above 1 and alpha = 0 are all rejected.                                 *)
(***************************************************************************)
C12_MixingRatioDomain ==
    (/\ stage = "fitted"
     /\ est.variant \in Mixing
     /\ ~(est.alpha > 0 /\ 0 < est.ratio /\ est.ratio <= 1)) =>
        RaisedUnsolved("ValueError")

(***************************************************************************)
(* C13. fit raises ValueError, without building a problem or calling the   *)
(* solver, for any factorization name outside inv, pinv, eig, ldl, chol,   *)
(* sqrt; and whenever the base problem builder runs it adds exactly one    *)
(* block constraint and does not raise, so its fall-through error is       *)
(* never reached.                                                          *)
(***************************************************************************)
C13_InvMethodValidated ==
    stage = "fitted" =>
        /\ est.inv_method \notin {"inv", "pinv", "eig", "ldl", "chol", "sqrt"} =>
              /\ RaisedUnsolved("ValueError")
              /\ \A i \in 1..Len(trace) : trace[i] # "_get_base_problem"
        /\ (\E i \in 1..Len(trace) : trace[i] = "_get_base_problem") =>
              /\ Cardinality(blocks) = 1
              /\ trace[Len(trace)] # "_get_base_problem"

\* The last branch of the chain: 'sqrt' passed validation, the builder added
\* the block built from sqrt(H) and fit went on to the solver.
C13_Witness ==
    /\ stage = "fitted"
    /\ est.variant = "LmiEdmdTikhonovReg"
    /\ est.inv_method = "sqrt"
    /\ blocks = {"sqrt(H)"}
    /\ result = "solving"

(***************************************************************************)
(* C14. An iterative fit whose max_iter is zero or negative ends with      *)
(* ValueError before any solve, and with no stop reason and no other       *)
(* result attribute set on the estimator.                                  *)
(***************************************************************************)
C14_MaxIterRejected ==
    (pc = "done" /\ variant \in Iterative /\ max_iter < 1) =>
        /\ outcome = "ValueError"
        /\ nSolveA = 0 /\ nSolveB = 0
        /\ fitted \cap ({"stop_reason_"} \cup FinalAttrs(variant)) = {}

(***************************************************************************)
(* C15. fit raises ValueError, before any solver call, when the estimator  *)
(* was constructed with a negative picos_eps, with a spectral-radius bound *)
(* rho_bar <= 0, or with a negative tolerance tol.                         *)
(***************************************************************************)
C15_SlackBoundTolRejected ==
    (/\ stage = "fitted"
     /\ \/ est.picos_eps < 0
        \/ est.variant \in SpectralRadius /\ est.rho_bar <= 0
        \/ est.variant \in Iterative /\ est.tol < 0) =>
        RaisedUnsolved("ValueError")

(***************************************************************************)
(* C16. A dissipativity fit called without a supply-rate matrix, or with   *)
(* one whose shape is not (p, p), raises before the first problem is       *)
(* built and before any solver call.                                       *)
(***************************************************************************)
C16_SupplyRateChecked ==
    (/\ stage = "fitted"
     /\ est.variant = "LmiEdmdDissipativityConstr"
     /\ call.supply_rate_xi # "pxp") =>
        /\ result \notin {"", "solving"}
        /\ \A i \in 1..Len(trace) :
              trace[i] \notin {"_get_base_problem", "_get_problem_a"} \cup SolverPieces

(***************************************************************************)
(* Statistics, factorizations and the base problem, on numbers             *)
(*                                                                         *)
(* A third view: the memoized functions at the end of lmi.py and           *)
(* _get_base_problem, computed on small matrices.  The division by q is    *)
(* kept exact: a real matrix is a matrix of integer numerators over one    *)
(* positive denominator.  Square roots are taken only where they are       *)
(* exact, which limits the base problems built here to statistics whose H  *)
(* is diagonal with squares of rationals on the diagonal.                  *)
(***************************************************************************)
\* A + B for two real matrices
RatAdd(A, B) ==
    IF A.den = B.den THEN Rat(MatAdd(A.num, B.num), A.den)
    ELSE Rat(MatAdd(Scale(B.den, A.num), Scale(A.den, B.num)), A.den * B.den)

\* np.linalg.matrix_rank(M): the size of the largest non-vanishing minor
MatrixRank(M) ==
    LET sizes == {n \in 0..Rows(M) :
                    \E R \in SUBSET (1..Rows(M)), C \in SUBSET (1..Cols(M)) :
                        /\ Cardinality(R) = n /\ Cardinality(C) = n
                        /\ Det(SubMatrix(M, R, C)) # 0}
    IN CHOOSE n \in sizes : \A m \in sizes : m <= n

IsDiagonal(M) == \A i \in 1..Rows(M), j \in 1..Cols(M) : i # j => M[i][j] = 0

IsSquare(n) == n >= 0 /\ \E r \in 0..n : r * r = n

\* np.sqrt(n) where it is exact
ExactSqrt(n) == CHOOSE r \in 0..n : r * r = n

\* The statistics whose factorizations are exact in this arithmetic.
ExactlyFactorable(H) ==
    /\ IsDiagonal(H.num)
    /\ \A i \in 1..Rows(H.num) : IsSquare(H.num[i][i] * H.den)

\* sqrt of a diagonal real matrix, entry by entry: sqrt(a/d) = sqrt(a*d)/d
SqrtDiagonal(H) ==
    Rat([i \in 1..Rows(H.num) |-> [j \in 1..Cols(H.num) |->
            IF i = j THEN ExactSqrt(H.num[i][i] * H.den) ELSE 0]],
        H.den)

\* _calc_c_G_H(X, y, alpha), line by line.
\* (faulty variant: alpha*np.eye(p) is added without the division by q)
_calc_c_G_H_unscaled(X, y, alpha) ==
    LET Psi == Transpose(X)
        Theta_p == Transpose(y)
        pp == Rows(Psi)
        q == Cols(Psi)
        G == Rat(MatMul(Theta_p, Transpose(Psi)), q)
        H_unreg == Rat(MatMul(Psi, Transpose(Psi)), q)
        H_reg == RatAdd(H_unreg, Rat(Scale(alpha, Eye(pp)), 1))
        c == Rat(Trace(MatMul(Theta_p, Transpose(Theta_p))), q)
    IN [c |-> c, G |-> G, H |-> H_reg,
        rank_H_reg |-> MatrixRank(H_reg.num), raised |-> ""]

_calc_c_G_H(X, y, alpha) ==
    LET Psi == Transpose(X)
        Theta_p == Transpose(y)
        pp == Rows(Psi)
        q == Cols(Psi)
        G == Rat(MatMul(Theta_p, Transpose(Psi)), q)
        H_unreg == Rat(MatMul(Psi, Transpose(Psi)), q)
        H_reg == RatAdd(H_unreg, Rat(Scale(alpha, Eye(pp)), q))
        c == Rat(Trace(MatMul(Theta_p, Transpose(Theta_p))), q)
    IN [c |-> c, G |-> G, H |-> H_reg,
        rank_H_reg |-> MatrixRank(H_reg.num), raised |-> ""]

\* What a factorization hands back: a matrix, or the exception it raised.
Value(F) == [raised |-> "", val |-> F]

LinAlgError == [raised |-> "LinAlgError", val |-> Rat(<<>>, 1)]

\* The inverse of a non-singular real matrix: d * adj(N) / det(N) for N / d.
Inverse(H) ==
    LET n == Rows(H.num)
        dt == Det(H.num)
        adj == [i \in 1..n |-> [j \in 1..n |->
                   (IF (i + j) % 2 = 0 THEN 1 ELSE -1) * Det(Minor(H.num, j, i))]]
        sg == IF dt < 0 THEN -1 ELSE 1
    IN Rat(Scale(sg * H.den, adj), sg * dt)

\* (faulty variant: H itself is handed back in place of its inverse)
_calc_Hinv_not_inverted(H) == Value(H)

\* linalg.inv(H): refuses a singular matrix
_calc_Hinv(H) == IF Det(H.num) = 0 THEN LinAlgError ELSE Value(Inverse(H))

\* linalg.pinv(H): the inverse of a non-singular H; for a singular diagonal H
\* the non-zero diagonal entries are inverted and the zeros kept
_calc_Hpinv(H) ==
    IF Det(H.num) # 0 THEN Value(Inverse(H))
    ELSE LET n == Rows(H.num)
             nz == [i \in 1..n |-> IF H.num[i][i] = 0 THEN 1 ELSE H.num[i][i]]
             L == Det([i \in 1..n |-> [j \in 1..n |-> IF i = j THEN nz[i] ELSE 0]])
         IN Value(Rat([i \in 1..n |-> [j \in 1..n |->
                          IF i = j /\ H.num[i][i] # 0
                          THEN H.den * (L \div H.num[i][i]) ELSE 0]],
                      L))

\* linalg.eigh(H) of a diagonal H: the eigenvalues in ascending order and the
\* unit vectors as eigenvectors; then V @ np.diag(np.sqrt(lmb))
_calc_VsqrtLmb(H) ==
    LET n == Rows(H.num)
        S == SqrtDiagonal(H)
        order == CHOOSE f \in [1..n -> 1..n] :
                    /\ \A a, b \in 1..n : a # b => f[a] # f[b]
                    /\ \A a, b \in 1..n : a < b =>
                          \/ H.num[f[a]][f[a]] < H.num[f[b]][f[b]]
                          \/ H.num[f[a]][f[a]] = H.num[f[b]][f[b]] /\ f[a] < f[b]
        V == [i \in 1..n |-> [l \in 1..n |-> IF i = order[l] THEN 1 ELSE 0]]
        sqrtLmb == [l \in 1..n |-> [j \in 1..n |->
                      IF l = j THEN S.num[order[l]][order[l]] ELSE 0]]
    IN Value(Rat(MatMul(V, sqrtLmb), S.den))

\* linalg.ldl(H) of a diagonal H is L = I, D = H; then L @ np.sqrt(D)
_calc_LsqrtD(H) ==
    LET S == SqrtDiagonal(H)
    IN Value(Rat(MatMul(Eye(Rows(H.num)), S.num), S.den))

\* linalg.cholesky(H, lower=True): refuses a matrix that is not positive
\* definite
_calc_L(H) ==
    IF \E i \in 1..Rows(H.num) : H.num[i][i] <= 0 THEN LinAlgError
    ELSE Value(SqrtDiagonal(H))

\* linalg.sqrtm(H)
_calc_sqrtH(H) == Value(SqrtDiagonal(H))

\* The memoized function behind each constant of _get_base_problem.
Factor(F, H) ==
    CASE F = "H^-1" -> _calc_Hinv(H)
      [] F = "H^+" -> _calc_Hpinv(H)
      [] F = "(V Lambda^(1/2))" -> _calc_VsqrtLmb(H)
      [] F = "(L D^(1/2))" -> _calc_LsqrtD(H)
      [] F = "L" -> _calc_L(H)
      [] F = "sqrt(H)" -> _calc_sqrtH(H)

\* The data fit is called with in this view: X is q x p, y is q x 1.
Datasets ==
    { [X |-> <<<<1, 0>>, <<1, 1>>, <<0, 1>>>>, y |-> <<<<1>>, <<0>>, <<2>>>>],
      [X |-> <<<<2, 1>>, <<2, -1>>>>,          y |-> <<<<1>>, <<2>>>>],
      [X |-> <<<<1, 0>>, <<1, 0>>>>,           y |-> <<<<1>>, <<1>>>>],
      [X |-> <<<<1>>, <<1>>>>,                 y |-> <<<<1>>, <<0>>>>] }

\* Values of alpha_tikhonov_reg_.
StatAlphas == {0, 6}

\* _calc_c_G_H on each of these inputs and the factorizations of each H that
\* is exactly factorable, worked out once.
Statistics ==
    [d \in Datasets, a \in StatAlphas |-> _calc_c_G_H(d.X, d.y, a)]

Factorable == {i \in DOMAIN Statistics : ExactlyFactorable(Statistics[i].H)}

Factorizations ==
    [i \in Factorable, b \in 1..Len(SchurBranches) |->
        Factor(SchurBranches[b].F, Statistics[i].H)]

\* joblib.Memory(cachedir.name) pickles every result into the cache directory
\* and unpickles it on a later call: the store never holds the object a
\* caller was handed.
\* (faulty variant: an in-memory store that hands out its own object)
CacheKeepsObject_InMemory == TRUE

CacheKeepsObject == FALSE

\* memory.cache around a function: the value a call hands back ...
Cached(store, key, computed) ==
    IF key \in DOMAIN store THEN store[key] ELSE computed

\* ... and the store after the call; a call that raises stores nothing.
StoreAfter(store, key, computed) ==
    IF key \in DOMAIN store \/ computed.raised # "" THEN store
    ELSE (key :> computed) @@ store

CacheSize == Cardinality(DOMAIN disk.stats) + Cardinality(DOMAIN disk.factor)

\* A caller computes the statistics and keeps what it was handed.
CallStats(d, alpha) ==
    LET key == <<d.X, d.y, alpha>>
        out == Cached(disk.stats, key, Statistics[d, alpha])
    IN /\ key \in DOMAIN disk.stats \/ CacheSize < MaxCached
       /\ disk' = [disk EXCEPT !.stats = StoreAfter(@, key, out)]
       /\ first' = StoreAfter(first, key, out)
       /\ held' = [has |-> TRUE, key |-> key, ret |-> out, now |-> out,
                   kept |-> CacheKeepsObject,
                   \* history: the same call was made before and what it
                   \* returned was written into
                   again |-> (held.has /\ held.key = key /\ held.now # held.ret)]
       /\ UNCHANGED <<problem, bstage, sol, stepvars, prefixvars>>

\* An in-place write into the H the caller holds, as in H[0, 0] += 1.
Touched(v) == [v EXCEPT !.H.num[1][1] = @ + 1]

Mutate ==
    /\ held.has /\ held.now = held.ret
    /\ held' = [held EXCEPT !.now = Touched(@)]
    /\ disk' = IF held.kept THEN [disk EXCEPT !.stats[held.key] = Touched(@)] ELSE disk
    /\ UNCHANGED <<first, problem, bstage, sol, stepvars, prefixvars>>

\* _get_base_problem of an estimator whose parameters passed validation:
\* statistics, the factorization of the branch taken, the block constraint,
\* the objective.
BuildBase(d, alpha, m) ==
    LET key == <<d.X, d.y, alpha>>
        st == Cached(disk.stats, key, Statistics[d, alpha])
        b == CHOOSE i \in Taken(m) : TRUE
        br == SchurBranches[b]
        fkey == <<br.F, st.H>>
        fac == Cached(disk.factor, fkey, Factorizations[<<d, alpha>>, b])
        stored == [stats |-> StoreAfter(disk.stats, key, st),
                   factor |-> StoreAfter(disk.factor, fkey, fac)]
    IN /\ bstage = "none"
       /\ m \in valid_inv_methods
       /\ <<d, alpha>> \in Factorable
       /\ Cardinality(DOMAIN stored.stats) + Cardinality(DOMAIN stored.factor)
             <= MaxCached
       /\ disk' = stored
       /\ first' = StoreAfter(first, key, st)
       /\ problem' = [inv_method |-> m, constant |-> br.F, form |-> br.form,
                      F |-> fac.val, H |-> st.H, rank_H_reg |-> st.rank_H_reg,
                      G_T |-> Rat(Transpose(st.G.num), st.G.den), c |-> st.c]
       /\ bstage' = IF fac.raised # "" THEN fac.raised ELSE "built"
       /\ sol' = ""
       /\ UNCHANGED <<held, stepvars, prefixvars>>

\* problem.solve() on the base problem: the solver's answer goes to the
\* estimator, not through memory.cache.
SolveBase(st) ==
    /\ bstage = "built"
    /\ bstage' = "solved"
    /\ sol' = st
    /\ UNCHANGED <<disk, first, held, problem, stepvars, prefixvars>>

\* fit has returned or raised; the problem is dropped, the cache stays.
DropProblem ==
    /\ bstage \notin {"none", "built"}
    /\ bstage' = "none"
    /\ problem' = NoProblem
    /\ sol' = ""
    /\ UNCHANGED <<disk, first, held, stepvars, prefixvars>>

StatNext ==
    \/ \E d \in Datasets, a \in StatAlphas : CallStats(d, a)
    \/ Mutate
    \/ /\ bstage = "none"
       /\ \E d \in Datasets, a \in StatAlphas, m \in valid_inv_methods :
             BuildBase(d, a, m)
    \/ /\ bstage = "built"
       /\ \E st \in Statuses : SolveBase(st)
    \/ DropProblem

StatSpec == Init /\ [][StatNext]_vars

\* The block constraint of a base problem at a point (U, Z), times the
\* denominator of its constant:
\*   [[Z, U], [U.T, F]]  or  [[Z, U*F], [F.T*U.T, I]].
BlockAt(pr, Uv, Zv) ==
    IF pr.form = "inverse"
    THEN Block2x2(Scale(pr.F.den, Zv), Scale(pr.F.den, Uv),
                  Scale(pr.F.den, Transpose(Uv)), pr.F.num)
    ELSE Block2x2(Scale(pr.F.den, Zv), MatMul(Uv, pr.F.num),
                  MatMul(Transpose(pr.F.num), Transpose(Uv)),
                  Scale(pr.F.den, Eye(Rows(pr.F.num))))

\* M >> 0 strictly: the leading principal minors are positive.
IsPD(M) == \A n \in 1..Rows(M) : Det(SubMatrix(M, 1..n, 1..n)) > 0

\* The points (U, Z) at which feasibility is compared.
UPoints(pr) == [1..Cols(pr.G_T.num) -> [1..Rows(pr.G_T.num) -> -1..1]]

ZPoints == {<<<<z>>>> : z \in 0..5}

\* Z - U*M*U.T >> 0 for a real matrix M, cleared of its denominator
QuadraticBound(M, Uv, Zv) ==
    IsPSD(MatSub(Scale(M.den, Zv), MatMul(MatMul(Uv, M.num), Transpose(Uv))))

(***************************************************************************)
(* C17. When H has rank below p and the factorization chosen is not pinv,  *)
(* building the base problem raises and the solver is not called; with     *)
(* pinv the same statistics are accepted and the problem is built.         *)
(***************************************************************************)
C17_SingularRejected ==
    (bstage # "none" /\ problem.rank_H_reg < Rows(problem.H.num)) =>
        IF problem.inv_method = "pinv"
        THEN bstage \in {"built", "solved"}
        ELSE bstage \notin {"built", "solved"} /\ sol = ""

(***************************************************************************)
(* C18. For every X (q x p), y (q x p_theta) and alpha, _calc_c_G_H        *)
(* returns G = (y^T X)/q of shape p_theta x p, H = (X^T X)/q + alpha*I/q   *)
(* of shape p x p and symmetric, and c = trace(y^T y)/q: alpha is found    *)
(* on the diagonal of H and nowhere else.                                  *)
(***************************************************************************)
C18_Statistics ==
    \A ky \in DOMAIN first :
        LET X == ky[1]
            y == ky[2]
            alpha == ky[3]
            q == Rows(X)
            r == first[ky]
        IN /\ Rows(r.G.num) = Cols(y) /\ Cols(r.G.num) = Cols(X)
           /\ \A i \in 1..Cols(y), j \in 1..Cols(X) :
                 r.G.num[i][j] * q =
                    r.G.den * SumTo([s \in 1..q |-> y[s][i] * X[s][j]], q)
           /\ Rows(r.H.num) = Cols(X) /\ Cols(r.H.num) = Cols(X)
           /\ \A i, j \in 1..Cols(X) :
                 /\ r.H.num[i][j] * q =
                       r.H.den * (SumTo([s \in 1..q |-> X[s][i] * X[s][j]], q)
                                  + (IF i = j THEN alpha ELSE 0))
                 /\ r.H.num[i][j] = r.H.num[j][i]
           /\ r.c.num * q =
                 r.c.den * SumTo([s \in 1..q |->
                                     SumTo([i \in 1..Cols(y) |-> y[s][i] * y[s][i]],
                                           Cols(y))], q)

\* The statistics of three samples with two features, whose H is not
\* diagonal, computed with alpha = 6.
C18_Witness ==
    /\ held.has
    /\ held.key[3] = 6
    /\ Rows(held.key[1]) = 3
    /\ ~IsDiagonal(held.ret.H.num)

C20_SchurOfInverse ==
    (bstage = "built" /\ IsPD(problem.H.num)) =>
        \A Uv \in UPoints(problem), Zv \in ZPoints :
            IsPSD(BlockAt(problem, Uv, Zv))
                <=> QuadraticBound(Inverse(problem.H), Uv, Zv)

(***************************************************************************)
(* C20, amended.  For every accepted factorization method the block        *)
(* constraint of the base problem just built holds at (U, Z) exactly when  *)
(* Z - U*H*U^T >> 0, for H positive definite: all methods define the       *)
(* same feasible set of (U, Z).                                            *)
(***************************************************************************)
C20_SchurEquivalent ==
    (bstage = "built" /\ IsPD(problem.H.num)) =>
        \A Uv \in UPoints(problem), Zv \in ZPoints :
            IsPSD(BlockAt(problem, Uv, Zv))
                <=> QuadraticBound(problem.H, Uv, Zv)

\* A base problem built with 'eig' for H = diag(4, 1): its factor V*sqrt(Lmb)
\* is not symmetric, and U = (1, 0), Z = 1 satisfies Z >= U*H^-1*U^T but not
\* the block constraint.
C20_Witness ==
    /\ bstage = "built"
    /\ problem.inv_method = "eig"
    /\ problem.H = Rat(<<<<8, 0>>, <<0, 2>>>>, 2)
    /\ ~IsPSD(BlockAt(problem, <<<<1, 0>>>>, <<<<1>>>>))
    /\ QuadraticBound(Inverse(problem.H), <<<<1, 0>>>>, <<<<1>>>>)

C22_StalledReasonHasStatus ==
    (pc = "done" /\ variant \in Iterative /\ Classify(stop_reason_) = "Stalled") =>
        /\ lastStatus # "optimal"
        /\ stop_reason_.status = lastStatus

(***************************************************************************)
(* The second problem of a round                                           *)
(***************************************************************************)
\* _get_problem_b of each class that has one: the picos constants it
\* creates, its variables, and the objective it sets.
_get_problem_b(v) ==
    CASE v = "LmiEdmdSpectralRadiusConstr" ->
           [constants |-> {"rho_bar^2", "U", "P"}, variables |-> {"Gamma"},
            objective |-> "find"]
      [] v = "LmiEdmdHinfReg" ->
           [constants |-> {"U", "gamma"}, variables |-> {"P"},
            objective |-> "find"]
      [] v = "LmiEdmdDissipativityConstr" ->
           [constants |-> {"U", "C", "Xi_11", "Xi_12", "Xi_22"}, variables |-> {"P"},
            objective |-> "find"]

\* The variables that hold a certificate.
CertificateVariables == {"Gamma", "P", "gamma"}

(***************************************************************************)
(* C23. The problem SolveB solves has U among its constants and only       *)
(* certificate variables as variables; its objective is 'find' for the     *)
(* spectral radius and dissipativity variants and the minimisation of      *)
(* gamma for the H-infinity variant.                                       *)
(* Refuted by the code: LmiEdmdHinfReg._get_problem_b makes gamma a        *)
(* constant and sets the objective 'find'.                                 *)
(***************************************************************************)
C23_ProblemB ==
    (pc = "solveB") =>
        LET pb == _get_problem_b(variant) IN
        /\ "U" \in pb.constants
        /\ pb.variables # {}
        /\ pb.variables \subseteq CertificateVariables
        /\ pb.objective =
              IF variant = "LmiEdmdHinfReg" THEN "min gamma" ELSE "find"

\* The pieces that choose the certificate the first problem_a is built from,
\* and the pieces of fit that come before any of them.
SeedPieces == {"np.eye(p_theta)", "_hot_start", "P = P_0", "_initial_guess"}

CheckPieces == {"_validate_parameters", "_validate_data", "p_theta == p",
                "kwargs['supply_rate_xi']"}

(***************************************************************************)
(* C24. In an iterative fit that got past its checks, the certificate of   *)
(* the first round is chosen once: it is np.eye(p_theta) when no warm      *)
(* start is supplied; in the H-infinity fit it is what _hot_start returns  *)
(* when P_0 is 'hot' and the matrix P_0 otherwise; and no later piece      *)
(* before the first SolveA writes it.                                      *)
(* Refuted by the code: a matrix P_0 with more than one element can end    *)
(* the fit in `elif P_0 == 'hot'`, and the Ico variant always starts from  *)
(* _initial_guess.                                                         *)
(***************************************************************************)
C24_SeedCertificate ==
    (/\ stage = "fitted" /\ est.variant \in Iterative
     /\ \E i \in 1..Len(trace) : trace[i] \notin CheckPieces) =>
        LET seeds == {i \in 1..Len(trace) : trace[i] \in SeedPieces} IN
        /\ Cardinality(seeds) = 1
        /\ \A i \in seeds :
              trace[i] = CASE call.P_0 = "hot" -> "_hot_start"
                           [] call.P_0 = "given" -> "P = P_0"
                           [] OTHER -> "np.eye(p_theta)"

\* ---------------------------------------------------------------------------
\* C25: in every round SolveA runs before SolveB; the problem SolveA solves
\* holds as constant the certificate the SolveB of the round before produced
\* (the seed in the first round), the problem SolveB solves holds as constant
\* the U the SolveA of the same round produced, and SolveB is never started in
\* a round whose SolveA was not optimal.
C25_RoundOrder ==
    [][ /\ (pc' = "solveA" /\ pc # "solveA") =>
              /\ pc = "pollA"
              /\ problem_a.constant = lastCert
              /\ nSolveA = rounds
              /\ nSolveB = IF variant = "LmiEdmdSpectralRadiusConstrIco" THEN 0 ELSE rounds
        /\ (pc' = "solveB" /\ pc # "solveB") =>
              /\ pc = "pollB"
              /\ variant # "LmiEdmdSpectralRadiusConstrIco"
              /\ lastStatus = "optimal"
              /\ problem_b.constant = lastValid
              /\ problem_b.constant = U
              /\ nSolveA = rounds + 1
              /\ nSolveB = rounds
        /\ (pc = "solveA" /\ pc' # pc /\ lastStatus' # "optimal") =>
              (pc' = "done" /\ nSolveB' = nSolveB)
      ]_vars

\* the second round's SolveB is running: its problem holds the U of the second
\* SolveA, and the second SolveA took a certificate that is not the seed
C25_Witness ==
    /\ pc = "solveB"
    /\ variant = "LmiEdmdSpectralRadiusConstr"
    /\ rounds = 1
    /\ nSolveA = 2 /\ nSolveB = 2
    /\ problem_a.constant = lastCert
    /\ lastCert # Eye(p_theta)
    /\ problem_b.constant = lastValid
    /\ lastValid # prevRoundU

\* ---------------------------------------------------------------------------
\* C26: every iterative fit with max_iter >= 1 that gets past its checks
\* stores an estimate, and the estimate is the transpose of the U the last
\* optimal SolveA returned, or the zero matrix of shape (p, p_theta) when no
\* SolveA was optimal.
NoOptimalSolveA ==
    \/ nSolveA = 0
    \/ nSolveA = 1 /\ nSolveB = 0 /\ lastStatus # "optimal"

C26_CoefIsLastOptimalU ==
    (pc = "done" /\ variant \in Iterative /\ max_iter >= 1 /\ outcome # "ValueError") =>
        /\ "coef_" \in fitted
        /\ coef_ = Transpose(lastValid)
        /\ Rows(coef_) = p /\ Cols(coef_) = p_theta
        /\ NoOptimalSolveA => coef_ = Zeros(p, p_theta)

\* the second SolveB was not optimal: the estimate is the U of the second
\* SolveA, not the U of the completed first round
C26_Witness ==
    /\ pc = "done" /\ variant = "LmiEdmdDissipativityConstr"
    /\ Classify(stop_reason_) = "Stalled"
    /\ nSolveA = 2 /\ nSolveB = 2 /\ rounds = 1
    /\ coef_ = Transpose(lastValid)
    /\ coef_ # Transpose(prevRoundU)
    /\ coef_ # Zeros(p, p_theta)

\* the flag was set before the first poll: the estimate is the zero matrix
C26_WitnessZeros ==
    /\ pc = "done" /\ variant \in Iterative
    /\ Classify(stop_reason_) = "UserStopped"
    /\ nSolveA = 0 /\ p = 2
    /\ coef_ = Zeros(p, p_theta)

\* ---------------------------------------------------------------------------
\* C27: n_iter_ is the 1-based index of the round in which the loop was left:
\* the number of completed rounds when the fit ends Converged or
\* MaxIterReached, that number plus one when it ends Stalled or UserStopped,
\* and never less than 1.
C27_NIterIsExitRound ==
    (pc = "done" /\ variant \in Iterative /\ "n_iter_" \in fitted) =>
        /\ n_iter_ >= 1
        /\ n_iter_ <= max_iter
        /\ Classify(stop_reason_) \in {"Converged", "MaxIterReached"} => n_iter_ = rounds
        /\ Classify(stop_reason_) \in {"Stalled", "UserStopped"} => n_iter_ = rounds + 1

\* a fit left its second round at the poll before SolveB: one round was
\* completed and the count is 2
C27_Witness ==
    /\ pc = "done" /\ variant \in Iterative
    /\ Classify(stop_reason_) = "UserStopped"
    /\ rounds = 1 /\ nSolveA = 2 /\ nSolveB = 1
    /\ n_iter_ = 2

\* a fit ran out of rounds: the count is the number of rounds completed
C27_WitnessMaxIter ==
    /\ pc = "done" /\ variant \in Iterative
    /\ Classify(stop_reason_) = "MaxIterReached"
    /\ rounds = MaxIter /\ n_iter_ = MaxIter

\* ---------------------------------------------------------------------------
\* C28: when an iterative fit ends Converged or MaxIterReached, the
\* certificate it stores was produced by the SolveB whose problem held the
\* stored estimate as constant; when it ends Stalled or UserStopped the
\* certificate stored is that of the last completed round, or the seed when
\* no round was completed, and may belong to an earlier U than the stored one.
TwoProblem == Iterative \ {"LmiEdmdSpectralRadiusConstrIco"}

C28_CertificateOfEstimate ==
    (pc = "done" /\ variant \in TwoProblem /\ Returned) =>
        /\ cert_ = lastCert
        /\ Classify(stop_reason_) \in {"Converged", "MaxIterReached"} =>
              /\ rounds >= 1
              /\ lastCertFrom = Transpose(coef_)
        /\ Classify(stop_reason_) \in {"Stalled", "UserStopped"} =>
              lastCertFrom = IF rounds = 0 THEN <<>> ELSE prevRoundU

\* the fit converged in its second round on a U other than the first round's:
\* the certificate stored is the second SolveB's
C28_Witness ==
    /\ pc = "done" /\ variant = "LmiEdmdHinfReg"
    /\ Classify(stop_reason_) = "MaxIterReached"
    /\ rounds = 2
    /\ cert_ = lastCert
    /\ lastCertFrom = Transpose(coef_)
    /\ cert_ # Eye(p_theta)

\* the second SolveB was not optimal: the estimate is the second SolveA's, the
\* certificate is the first round's
C28_WitnessEarlierU ==
    /\ pc = "done" /\ variant \in TwoProblem
    /\ Classify(stop_reason_) = "Stalled"
    /\ rounds = 1 /\ nSolveB = 2
    /\ cert_ = lastCert
    /\ lastCertFrom = prevRoundU
    /\ lastCertFrom # Transpose(coef_)

\* ---------------------------------------------------------------------------
\* C29: tol_reached_ is the Frobenius difference computed in the last
\* completed round; it is None exactly when the fit ended, Stalled or
\* UserStopped, before completing any round, and it is below tol exactly when
\* the stop reason is the tolerance one.
C29_TolReachedIsLastDifference ==
    [][ /\ (variant \in Iterative /\ pc \in Running /\ pc' \in Running) =>
              difference' = IF rounds' = rounds + 1
                            THEN <<_fast_frob_norm(MatSub(prevRoundU, prevRoundU'))>>
                            ELSE difference
        /\ (variant \in Iterative /\ pc \in Running /\ pc' = "done" /\ Returned') =>
              /\ "tol_reached_" \in fitted'
              /\ tol_reached_' = IF rounds' = rounds + 1
                                 THEN <<_fast_frob_norm(MatSub(prevRoundU, prevRoundU'))>>
                                 ELSE difference
              /\ (tol_reached_' = <<>>) <=> (rounds' = 0)
              /\ (rounds' = 0) => Classify(stop_reason_') \in {"Stalled", "UserStopped"}
              /\ (Classify(stop_reason_') = "Converged") <=>
                     IF tol_reached_' = <<>> THEN FALSE
                     ELSE BelowTol(tol_reached_'[1], tol)
      ]_vars

\* the second SolveA was not optimal: the difference stored is the first
\* round's, which was not below tol
C29_Witness ==
    /\ pc = "done" /\ variant \in Iterative
    /\ Classify(stop_reason_) = "Stalled"
    /\ rounds = 1 /\ nSolveA = 2 /\ nSolveB = 1
    /\ tol = 1
    /\ tol_reached_ = <<_fast_frob_norm(MatSub(Zeros(p_theta, p), prevRoundU))>>
    /\ tol_reached_ # <<0>>

\* the first SolveA was not optimal: no round was completed and the
\* difference stored is None
C29_WitnessNone ==
    /\ pc = "done" /\ variant \in Iterative /\ Returned
    /\ Classify(stop_reason_) = "Stalled"
    /\ rounds = 0 /\ nSolveA = 1
    /\ "tol_reached_" \in fitted /\ tol_reached_ = <<>>

\* ---------------------------------------------------------------------------
\* C30: an H-infinity fit on data whose X has as many columns as y raises
\* ValueError once the parameters and the data have been validated, before
\* any seed, hot start, problem or solver call, and stores no estimate,
\* iteration count or stop reason.
AfterInputCheck ==
    SolverPieces \cup SeedPieces
    \cup {"P_0 == 'hot'", "range(max_iter)", "_get_base_problem", "_get_problem_a",
          "polite_stop"}

C30_HinfNeedsInput ==
    (/\ stage = "fitted" /\ est.variant = "LmiEdmdHinfReg"
     /\ call.p_theta = call.p
     /\ _validate_parameters(est) = "ok") =>
        /\ result = "ValueError"
        /\ trace = <<"_validate_parameters", "_validate_data", "p_theta == p">>
        /\ \A i \in 1..Len(trace) : trace[i] \notin AfterInputCheck
        /\ blocks = {}
        /\ Stored(est, call, trace) \cap {"coef_", "n_iter_", "stop_reason_"} = {}
        /\ Stored(est, call, trace) =
              {"solver_params_", "n_features_in_", "alpha_tikhonov_reg_", "alpha_other_reg_"}

\* a fit asked for a hot start on data without input: the ValueError comes
\* before _hot_start would have called the solver
C30_Witness ==
    /\ stage = "fitted" /\ est.variant = "LmiEdmdHinfReg"
    /\ call.p_theta = call.p /\ call.P_0 = "hot"
    /\ est.max_iter >= 1
    /\ result = "ValueError"
    /\ trace[Len(trace)] = "p_theta == p"

====
